---- MODULE Spec2Model ----
(***************************************************************************)
(* Capture path and metadata store of the garage monitor.                  *)
(*                                                                         *)
(* Spec           : stream_server.py -- PhotoScheduler.capture_photo run   *)
(*                  by the Flask /capture thread ("manual") and by the     *)
(*                  scheduler thread ("sched"), the frame buffer of        *)
(*                  CameraManager, photo_metadata.json on disk, process    *)
(*                  kill and restart.                                      *)
(* SpecStandalone : photo_scheduler.py -- PhotoScheduler.capture_photo     *)
(*                  calling the /capture endpoint of app.py.               *)
(***************************************************************************)
EXTENDS Integers, Sequences, FiniteSets, TLC

\* ------------------------------------------------------------------ bounds
TicksPerSec == 2      \* clock ticks per wall-clock second
SecsPerDay  == 2      \* wall-clock seconds per calendar day (scaled down)
MaxClock    == 4      \* last clock tick explored
MaxCalls    == 2      \* capture_photo calls explored
MaxFrames   == 2      \* frames the device delivers (SpecFrames)
MaxStarts   == 2      \* start_scheduler calls explored (SpecSched)
Horizon     == 3      \* instants at which something falls due explored (SpecSched)
MaxOps      == 2      \* stop, test and clear-test requests explored (SpecSched)

Threads == {"manual", "sched"}

VARIABLES
    clock,        \* datetime.now(), in ticks
    up,           \* the server process is running
    frame,        \* CameraManager.frame: <<>> is None, <<f>> a frame
    camera,       \* CameraManager.camera: "none", "open" or "released"
    photo_count,  \* PhotoScheduler.photo_count
    metadata,     \* PhotoScheduler.metadata: a dict, key |-> value
    metaFile,     \* photo_metadata.json: [exists, data], data a token sequence
    photos,       \* photos/: file name |-> frame written
    th,           \* per thread: position in capture_photo and its locals
    hist,         \* history (ghost): what the callers have observed
    is_streaming, \* CameraManager.is_streaming
    lock,         \* CameraManager.lock / frame_lock: <<>> free, <<t>> held by t
    heap,         \* the frame arrays in memory: object |-> pixels
    jobs,         \* schedule.jobs: the scheduled jobs
    is_running    \* PhotoScheduler.is_running

vars == <<clock, up, frame, camera, photo_count, metadata, metaFile, photos, th, hist,
          is_streaming, lock, heap, jobs, is_running>>

\* The state of CameraManager next to camera and frame, and of the scheduler.
camVars   == <<is_streaming, lock, heap>>
schedVars == <<jobs, is_running>>
\* The state of the capture path.
captureVars == <<up, photo_count, metadata, metaFile, photos>>

\* ------------------------------------------------------- time formatting
\* strftime('%Y%m%d_%H%M%S'): the timestamp truncated to whole seconds.
StampSeconds(c) == c \div TicksPerSec
\* f'garage_{timestamp}.jpg': one name per second stamp.
FileName(c) == StampSeconds(c)
\* strftime('%Y-%m-%d'): the timestamp truncated to whole days.
DateStr(c) == c \div (TicksPerSec * SecsPerDay)
\* isoformat(): full-resolution timestamp; <<>> is None.
IsoFormat(c) == <<c>>

\* ---------------------------------------------------------- JSON on disk
LBrace == [tok |-> "{", key |-> "", val |-> <<>>]
RBrace == [tok |-> "}", key |-> "", val |-> <<>>]
Junk   == [tok |-> "junk", key |-> "", val |-> <<>>]
KV(k, v) == [tok |-> "kv", key |-> k, val |-> v]

KeyOrder == <<"total_photos", "photos_by_date", "last_capture">>

\* The initial dict of load_metadata.
ZeroState == [total_photos |-> 0, photos_by_date |-> <<>>, last_capture |-> <<>>]

\* json.dump(self.metadata, f): the dict's items between braces.
JsonDump(m) ==
    LET keys == SelectSeq(KeyOrder, LAMBDA k : k \in DOMAIN m)
    IN  <<LBrace>> \o [i \in 1..Len(keys) |-> KV(keys[i], m[keys[i]])] \o <<RBrace>>

\* json.load succeeds on a complete object only.
JsonParses(s) ==
    /\ Len(s) >= 2
    /\ s[1].tok = "{"
    /\ s[Len(s)].tok = "}"
    /\ \A i \in 2..(Len(s) - 1) : s[i].tok = "kv"

\* json.load(f) of a complete object: the last item of a key wins.
JsonLoad(s) ==
    LET items == 2..(Len(s) - 1)
        last(k) == CHOOSE i \in items :
                      /\ s[i].key = k
                      /\ \A j \in items : j > i => s[j].key # k
    IN  [k \in {s[i].key : i \in items} |-> s[last(k)].val]

\* load_metadata: the file's dict when it exists and parses, else zero-state.
LoadMetadata(f) ==
    IF f.exists /\ JsonParses(f.data) THEN JsonLoad(f.data) ELSE ZeroState

\* A write of buf at offset 0 of a file holding data.
Overlay(data, buf) ==
    IF Len(buf) >= Len(data) THEN buf
    ELSE buf \o SubSeq(data, Len(buf) + 1, Len(data))

\* A dict that holds the three fields of a metadata record.
IsRecord(m) == {"total_photos", "photos_by_date", "last_capture"} \subseteq DOMAIN m

RECURSIVE SumOver(_, _)
SumOver(f, S) ==
    IF S = {} THEN 0
    ELSE LET d == CHOOSE x \in S : TRUE IN f[d] + SumOver(f, S \ {d})

\* sum(metadata['photos_by_date'].values())
SumByDate(m) == SumOver(m["photos_by_date"], DOMAIN m["photos_by_date"])

\* ---------------------------------------------------------------- threads
IdleThread ==
    [pc |-> "idle", filename |-> 0, pixels |-> 0, reg |-> 0, date_str |-> 0,
     buf |-> <<>>, ret |-> <<>>, log |-> "none"]

Active(t) == th[t].pc \notin {"idle", "returned"}
AllIdle == \A t \in Threads : ~Active(t)

\* capture_photo returns: ret is <<>> (None) or <<filename>>.
Return(t, ret, log) ==
    [th EXCEPT ![t] = [IdleThread EXCEPT !.pc = "returned", !.ret = ret, !.log = log,
                                         !.filename = 0]]

Goto(t, pc) == [th EXCEPT ![t].pc = pc]

\* ------------------------------------------------------------------- Init
InitFiles ==
    { [exists |-> FALSE, data |-> <<>>],
      [exists |-> TRUE,  data |-> <<Junk>>],
      [exists |-> TRUE,  data |-> <<LBrace, RBrace>>] }

Init ==
    /\ clock = 0
    /\ up = TRUE
    /\ frame = <<>>
    /\ camera = "open"
    /\ photo_count = 0
    /\ metaFile \in InitFiles
    /\ metadata = LoadMetadata(metaFile)
    /\ photos = <<>>
    /\ th = [t \in Threads |-> IdleThread]
    /\ is_streaming = TRUE
    /\ lock = <<>>
    /\ heap = <<>>
    /\ jobs = <<>>
    /\ is_running = FALSE
    /\ hist = [names |-> <<>>, base |-> 0, calls |-> 0,
               overlap |-> FALSE, zero_start |-> (metadata = ZeroState),
               clean |-> ~metaFile.exists]


\* ------------------------------------------------- capture_photo, by steps
\* dict[k] = v
SetItem(m, k, v) == [x \in DOMAIN m \cup {k} |-> IF x = k THEN v ELSE m[x]]

\* The history after a call that returned a file name.
Succeeded(t, persisted) ==
    [hist EXCEPT !.names = Append(@, th[t].filename),
                 !.clean = @ /\ persisted]

\* As CaptureBegin, without the "frame is not None" test.
CaptureBeginUnchecked(t) ==
    /\ up
    /\ ~Active(t)
    /\ hist.calls < MaxCalls
    /\ LET racing == \E u \in Threads \ {t} : Active(u) IN
       hist' = [hist EXCEPT !.calls = @ + 1,
                            !.overlap = @ \/ racing,
                            !.clean = @ /\ ~racing]
    /\ th' = [th EXCEPT ![t] = [IdleThread EXCEPT !.pc = "imwrite",
                                                  !.filename = FileName(clock),
                                                  !.pixels = Len(frame)]]
    /\ UNCHANGED <<camVars, schedVars, clock, up, frame, camera, photo_count, metadata, metaFile, photos>>

\* frame = get_frame(); timestamp, filename.
CaptureBegin(t) ==
    /\ up
    /\ ~Active(t)
    /\ hist.calls < MaxCalls
    /\ LET racing == \E u \in Threads \ {t} : Active(u) IN
       hist' = [hist EXCEPT !.calls = @ + 1,
                            !.overlap = @ \/ racing,
                            !.clean = @ /\ ~racing]
    /\ IF frame = <<>>
       THEN th' = Return(t, <<>>, "no_frame")
       ELSE th' = [th EXCEPT ![t] = [IdleThread EXCEPT !.pc = "imwrite",
                                                       !.filename = FileName(clock),
                                                       !.pixels = frame[1]]]
    /\ UNCHANGED <<camVars, schedVars, clock, up, frame, camera, photo_count, metadata, metaFile, photos>>

\* if cv2.imwrite(filepath, frame): ... else: "Failed to save photo", None.
ImWrite(t) ==
    /\ th[t].pc = "imwrite"
    /\ \E ok \in BOOLEAN :
          IF ok
          THEN /\ photos' = SetItem(photos, th[t].filename, th[t].pixels)
               /\ th' = Goto(t, "count_load")
          ELSE /\ photos' = photos
               /\ th' = Return(t, <<>>, "imwrite_failed")
    /\ UNCHANGED <<camVars, schedVars, clock, up, frame, camera, photo_count, metadata, metaFile, hist>>

\* self.photo_count += 1, the read.
CountLoad(t) ==
    /\ th[t].pc = "count_load"
    /\ th' = [th EXCEPT ![t].pc = "count_store", ![t].reg = photo_count]
    /\ UNCHANGED <<camVars, schedVars, clock, up, frame, camera, photo_count, metadata, metaFile, photos, hist>>

\* self.photo_count += 1, the write.
CountStore(t) ==
    /\ th[t].pc = "count_store"
    /\ photo_count' = th[t].reg + 1
    /\ th' = Goto(t, "date")
    /\ UNCHANGED <<camVars, schedVars, clock, up, frame, camera, metadata, metaFile, photos, hist>>

\* date_str = now; if date_str not in photos_by_date: photos_by_date[date_str] = 0.
\* A dict without the key raises, and the handler's except returns None.
DateBucket(t) ==
    /\ th[t].pc = "date"
    /\ IF "photos_by_date" \in DOMAIN metadata
       THEN LET d  == DateStr(clock)
                by == metadata["photos_by_date"] IN
            /\ metadata' = IF d \in DOMAIN by THEN metadata
                           ELSE SetItem(metadata, "photos_by_date", SetItem(by, d, 0))
            /\ th' = [th EXCEPT ![t].pc = "bucket_load", ![t].date_str = d]
       ELSE /\ metadata' = metadata
            /\ th' = Return(t, <<>>, "exception")
    /\ UNCHANGED <<camVars, schedVars, clock, up, frame, camera, photo_count, metaFile, photos, hist>>

\* photos_by_date[date_str] += 1, the read.
BucketLoad(t) ==
    /\ th[t].pc = "bucket_load"
    /\ th' = [th EXCEPT ![t].pc = "bucket_store",
                        ![t].reg = metadata["photos_by_date"][th[t].date_str]]
    /\ UNCHANGED <<camVars, schedVars, clock, up, frame, camera, photo_count, metadata, metaFile, photos, hist>>

\* As BucketStore, with "= 1" written for "+= 1".
BucketStoreAssign(t) ==
    /\ th[t].pc = "bucket_store"
    /\ metadata' = SetItem(metadata, "photos_by_date",
                           SetItem(metadata["photos_by_date"], th[t].date_str, 1))
    /\ th' = Goto(t, "total")
    /\ UNCHANGED <<camVars, schedVars, clock, up, frame, camera, photo_count, metaFile, photos, hist>>

\* photos_by_date[date_str] += 1, the write.
BucketStore(t) ==
    /\ th[t].pc = "bucket_store"
    /\ metadata' = SetItem(metadata, "photos_by_date",
                           SetItem(metadata["photos_by_date"], th[t].date_str,
                                   th[t].reg + 1))
    /\ th' = Goto(t, "total")
    /\ UNCHANGED <<camVars, schedVars, clock, up, frame, camera, photo_count, metaFile, photos, hist>>

\* metadata['total_photos'] = self.photo_count; metadata['last_capture'] = now.
TotalAndLast(t) ==
    /\ th[t].pc = "total"
    /\ metadata' = SetItem(SetItem(metadata, "total_photos", photo_count),
                           "last_capture", IsoFormat(clock))
    /\ th' = Goto(t, "save_open")
    /\ UNCHANGED <<camVars, schedVars, clock, up, frame, camera, photo_count, metaFile, photos, hist>>

\* save_metadata: open(file, 'w') truncates and json.dump fills the write buffer;
\* a failing open is logged by save_metadata, and the capture goes on to return ret.
OpenStore(t, next, ret) ==
    \E ok \in BOOLEAN :
        IF ok
        THEN /\ metaFile' = [exists |-> TRUE, data |-> <<>>]
             /\ th' = [th EXCEPT ![t].pc = next, ![t].buf = JsonDump(metadata)]
             /\ hist' = hist
        ELSE /\ metaFile' = metaFile
             /\ th' = Return(t, ret, "save_metadata_failed")
             /\ hist' = Succeeded(t, FALSE)

\* save_metadata: leaving the with block flushes the buffer; the capture returns ret.
CloseStore(t, ret) ==
    /\ metaFile' = [exists |-> TRUE, data |-> Overlay(metaFile.data, th[t].buf)]
    /\ th' = Return(t, ret, "none")
    /\ hist' = Succeeded(t, TRUE)

\* self.save_metadata() ... return filename
SaveOpen(t) ==
    /\ th[t].pc = "save_open"
    /\ OpenStore(t, "save_close", <<th[t].filename>>)
    /\ UNCHANGED <<camVars, schedVars, clock, up, frame, camera, photo_count, metadata, photos>>

SaveClose(t) ==
    /\ th[t].pc = "save_close"
    /\ CloseStore(t, <<th[t].filename>>)
    /\ UNCHANGED <<camVars, schedVars, clock, up, frame, camera, photo_count, metadata, photos>>

\* ------------------------------------------------------------ environment
\* _stream_loop: self.frame = frame.copy()
Publish ==
    /\ up
    /\ frame' = <<1>>
    /\ UNCHANGED <<camVars, schedVars, clock, up, camera, photo_count, metadata, metaFile, photos, th, hist>>

Tick ==
    /\ clock < MaxClock
    /\ clock' = clock + 1
    /\ UNCHANGED <<camVars, schedVars, up, frame, camera, photo_count, metadata, metaFile, photos, th, hist>>

\* What a kill leaves of the store: a save in flight has flushed any prefix.
TornFiles ==
    {metaFile} \cup
    UNION { { [exists |-> TRUE,
               data |-> Overlay(metaFile.data, SubSeq(th[t].buf, 1, n))] :
                 n \in 0..Len(th[t].buf) } :
            t \in {u \in Threads : th[u].pc \in {"save_close", "st_save_close"}} }

\* The process ends (Ctrl+C, kill, power loss): the daemon threads die where they are.
Kill ==
    /\ up
    /\ up' = FALSE
    /\ metaFile' \in TornFiles
    /\ th' = [t \in Threads |-> IdleThread]
    /\ hist' = [hist EXCEPT !.clean = @ /\ AllIdle]
    /\ UNCHANGED <<camVars, schedVars, clock, frame, camera, photo_count, metadata, photos>>

\* main(): PhotoScheduler.__init__
Startup ==
    /\ ~up
    /\ up' = TRUE
    /\ frame' = <<>>
    /\ photo_count' = 0
    /\ metadata' = LoadMetadata(metaFile)
    /\ hist' = [hist EXCEPT !.base = Len(hist.names), !.overlap = FALSE,
                            !.zero_start = (metadata' = ZeroState)]
    /\ UNCHANGED <<camVars, schedVars, clock, camera, metaFile, photos, th>>

Next ==
    \/ \E t \in Threads : CaptureBegin(t)
    \/ \E t \in Threads : ImWrite(t)
    \/ \E t \in Threads : CountLoad(t)
    \/ \E t \in Threads : CountStore(t)
    \/ \E t \in Threads : DateBucket(t)
    \/ \E t \in Threads : BucketLoad(t)
    \/ \E t \in Threads : BucketStore(t)
    \/ \E t \in Threads : TotalAndLast(t)
    \/ \E t \in Threads : SaveOpen(t)
    \/ \E t \in Threads : SaveClose(t)
    \/ Publish
    \/ Tick
    \/ Kill
    \/ Startup

Spec == Init /\ [][Next]_vars


\* ------------------------------------- photo_scheduler.py against app.py
\* app.py CameraManager.capture_photo: reads the device, names the file after
\* the second, calls cv2.imwrite and returns the name whatever imwrite returned.
AppCapturePhoto(readOk, writeOk) ==
    IF camera = "none" \/ camera = "released" \/ ~readOk
    THEN [ret |-> <<>>, photos |-> photos]
    ELSE [ret |-> <<FileName(clock)>>,
          photos |-> IF writeOk THEN SetItem(photos, FileName(clock), 1) ELSE photos]

\* requests.get('/capture'): a connection error, or the endpoint's answer
\* (200 with success and filename, or 500).
StRequest(t) ==
    /\ up
    /\ t = "sched"
    /\ ~Active(t)
    /\ hist.calls < MaxCalls
    /\ hist' = [hist EXCEPT !.calls = @ + 1]
    /\ \E conn, readOk, writeOk \in BOOLEAN :
          IF ~conn
          THEN /\ th' = Return(t, <<>>, "request_failed")
               /\ photos' = photos
          ELSE LET r == AppCapturePhoto(readOk, writeOk) IN
               /\ photos' = r.photos
               /\ th' = IF r.ret = <<>>
                        THEN Return(t, <<>>, "http_error")
                        ELSE [th EXCEPT ![t] = [IdleThread EXCEPT !.pc = "st_update",
                                                                  !.filename = r.ret[1]]]
    /\ UNCHANGED <<camVars, schedVars, clock, up, frame, camera, photo_count, metadata, metaFile>>

\* On success: photo_count += 1, the date bucket, total_photos, last_capture.
\* A dict without the key raises after the count, and the call returns False.
StUpdate(t) ==
    /\ th[t].pc = "st_update"
    /\ photo_count' = photo_count + 1
    /\ IF "photos_by_date" \in DOMAIN metadata
       THEN LET d   == DateStr(clock)
                by  == metadata["photos_by_date"]
                old == IF d \in DOMAIN by THEN by[d] ELSE 0
                m1  == SetItem(metadata, "photos_by_date", SetItem(by, d, old + 1))
                m2  == SetItem(m1, "total_photos", photo_count')
            IN  /\ metadata' = SetItem(m2, "last_capture", IsoFormat(clock))
                /\ th' = Goto(t, "st_save_open")
       ELSE /\ metadata' = metadata
            /\ th' = Return(t, <<>>, "exception")
    /\ UNCHANGED <<camVars, schedVars, clock, up, frame, camera, metaFile, photos, hist>>

\* self.save_metadata() ... return True
StSaveOpen(t) ==
    /\ th[t].pc = "st_save_open"
    /\ OpenStore(t, "st_save_close", <<TRUE>>)
    /\ UNCHANGED <<camVars, schedVars, clock, up, frame, camera, photo_count, metadata, photos>>

StSaveClose(t) ==
    /\ th[t].pc = "st_save_close"
    /\ CloseStore(t, <<TRUE>>)
    /\ UNCHANGED <<camVars, schedVars, clock, up, frame, camera, photo_count, metadata, photos>>

\* app.py start_streaming: a missing handle is probed for, any other is kept.
AppStartStreaming ==
    /\ camera = "none"
    /\ \E found \in BOOLEAN : camera' = IF found THEN "open" ELSE "none"
    /\ UNCHANGED <<camVars, schedVars, clock, up, frame, photo_count, metadata, metaFile, photos, th, hist>>

\* app.py stop_streaming: the handle is released and kept.
AppStopStreaming ==
    /\ camera # "none"
    /\ camera' = "released"
    /\ UNCHANGED <<camVars, schedVars, clock, up, frame, photo_count, metadata, metaFile, photos, th, hist>>

InitStandalone ==
    /\ clock = 0
    /\ up = TRUE
    /\ frame = <<>>
    /\ camera = "none"
    /\ photo_count = 0
    /\ metaFile \in InitFiles
    /\ metadata = LoadMetadata(metaFile)
    /\ photos = <<>>
    /\ th = [t \in Threads |-> IdleThread]
    /\ is_streaming = TRUE
    /\ lock = <<>>
    /\ heap = <<>>
    /\ jobs = <<>>
    /\ is_running = FALSE
    /\ hist = [names |-> <<>>, base |-> 0, calls |-> 0,
               overlap |-> FALSE, zero_start |-> (metadata = ZeroState),
               clean |-> ~metaFile.exists]

NextStandalone ==
    \/ \E t \in Threads : StRequest(t)
    \/ \E t \in Threads : StUpdate(t)
    \/ \E t \in Threads : StSaveOpen(t)
    \/ \E t \in Threads : StSaveClose(t)
    \/ AppStartStreaming
    \/ AppStopStreaming
    \/ Tick
    \/ Kill
    \/ Startup

SpecStandalone == InitStandalone /\ [][NextStandalone]_vars

\* ------------------------------------------------------- claims under Spec
\* Successful captures since the last startup.
SinceStart == Len(hist.names) - hist.base

\* What get_stats reports as total_photos.
StatsTotal == photo_count

\* The store on disk holds a complete JSON object.
StoreComplete(f) == f.exists /\ JsonParses(f.data)

\* The store on disk holds a well-formed metadata record.
StoreHoldsRecord(f) == StoreComplete(f) /\ IsRecord(JsonLoad(f.data))

\* C1: in every reachable state of the capture path, steps of a capture
\* included, total_photos equals the sum of the per-date counts.
C1_TotalEqualsSum ==
    (up /\ IsRecord(metadata)) => metadata["total_photos"] = SumByDate(metadata)

\* C2: counters are durable across restarts: with k captures persisted before
\* a restart and m >= 1 successful ones after it, the persisted total_photos and
\* the total of get_stats are k + m (captures one at a time, every save written).
C2_DurableCounters ==
    (up /\ AllIdle /\ hist.clean /\ SinceStart >= 1) =>
        /\ StatsTotal = Len(hist.names)
        /\ StoreHoldsRecord(metaFile)
        /\ JsonLoad(metaFile.data)["total_photos"] = Len(hist.names)

\* C3: from a zero-state store, after N successful sequential captures
\* total_photos = N and the per-date counts sum to N, however the captures
\* fall on dates.
C3_SequentialCounts ==
    (up /\ AllIdle /\ hist.zero_start /\ ~hist.overlap) =>
        /\ metadata["total_photos"] = SinceStart
        /\ SumByDate(metadata) = SinceStart

C3_Witness ==
    /\ up /\ AllIdle /\ hist.zero_start /\ ~hist.overlap
    /\ SinceStart = 2
    /\ Cardinality(DOMAIN metadata["photos_by_date"]) = 2

\* C4: two captures that ran concurrently and both succeeded leave photo_count,
\* total_photos and the date buckets increased by exactly one per capture.
C4_ConcurrentSerialized ==
    (up /\ AllIdle /\ hist.zero_start /\ hist.overlap) =>
        /\ photo_count = SinceStart
        /\ metadata["total_photos"] = SinceStart
        /\ SumByDate(metadata) = SinceStart

\* C6: a capture_photo call made while no frame has been published returns None
\* and changes neither photo_count, metadata, the persisted store nor the photos.
C6_NoFrameNoEffect ==
    [][(hist'.calls # hist.calls /\ frame = <<>>) =>
          /\ \E t \in Threads :
                /\ th'[t].pc = "returned"
                /\ th'[t].ret = <<>>
                /\ th'[t].log = "no_frame"
                /\ \A u \in Threads \ {t} : th'[u] = th[u]
          /\ UNCHANGED <<photo_count, metadata, metaFile, photos>>]_vars

C6_Witness ==
    /\ frame = <<>>
    /\ \E t \in Threads : th[t].pc = "returned" /\ th[t].log = "no_frame"

\* C7: a capture during which save_metadata could not write the store is
\* reported to the caller as failed.
C7_SaveFailureReported ==
    \A t \in Threads :
        (th[t].pc = "returned" /\ th[t].log = "save_metadata_failed") => th[t].ret = <<>>

\* C8: the store is persisted atomically: a complete record on disk is only
\* ever replaced by a complete record.
C8_AtomicPersist ==
    [][StoreComplete(metaFile) => StoreComplete(metaFile')]_vars

\* C9: whatever the store holds at startup, if it is absent or holds no
\* well-formed metadata record, the loaded state is the zero-state.
C9_LoadNeverFails ==
    [][(~up /\ up' /\ ~StoreHoldsRecord(metaFile)) => metadata' = ZeroState]_vars

\* C10: any two successful captures return distinct file names.
C10_DistinctFilenames ==
    \A i, j \in 1..Len(hist.names) : i # j => hist.names[i] # hist.names[j]


\* ---------------------------------------------- claims under SpecStandalone
\* C5: metadata is updated, and success reported, only after the image write
\* reported success: every counted capture has its image file in photos/.
C5_CountedHasImage ==
    \A i \in 1..Len(hist.names) : hist.names[i] \in DOMAIN photos


\* ------------------------------------------------- get_current_interval
\* SpecPolicy: clock is the time of day of datetime.now().time(), in seconds
\* since midnight; th holds what each copy of get_current_interval returned.
DaySeconds == 24 * 60 * 60

\* dt_time(h, m) of photo_scheduler.py (datetime.time imported as dt_time).
dt_time(h, m) == [raised |-> "", value |-> (h * 60 + m) * 60]

\* datetime.time(h, m) of stream_server.py: datetime is the class datetime.datetime
\* there, whose method time() does not apply to an int.
datetime_time(h, m) == [raised |-> "TypeError", value |-> 0]

\* The body shared by the two copies, over the time constructor each one uses.
IntervalWith(ctor, now) ==
    LET Time(h, m)    == IF ctor = "dt_time" THEN dt_time(h, m) ELSE datetime_time(h, m)
        morning_start == Time(7, 0)
        morning_end   == Time(9, 30)
        evening_start == Time(16, 0)
        evening_end   == Time(19, 0)
    IN  IF morning_start.raised # ""
        THEN [raised |-> morning_start.raised, value |-> 0]
        ELSE IF \/ (morning_start.value <= now /\ now <= morning_end.value)
                \/ (evening_start.value <= now /\ now <= evening_end.value)
             THEN [raised |-> "", value |-> 5]
             ELSE [raised |-> "", value |-> 15]

\* photo_scheduler.py PhotoScheduler.get_current_interval
StandaloneInterval(now) == IntervalWith("dt_time", now)

\* stream_server.py PhotoScheduler.get_current_interval
ServerInterval(now) == IntervalWith("datetime.time", now)

PolicyCallers == {"standalone", "server"}

InitPolicy ==
    /\ clock \in 0..(DaySeconds - 1)
    /\ th = [c \in PolicyCallers |-> [pc |-> "idle", ret |-> [raised |-> "", value |-> 0]]]
    /\ up = TRUE
    /\ frame = <<>>
    /\ camera = "open"
    /\ photo_count = 0
    /\ metaFile = [exists |-> FALSE, data |-> <<>>]
    /\ metadata = ZeroState
    /\ photos = <<>>
    /\ hist = <<>>
    /\ is_streaming = TRUE
    /\ lock = <<>>
    /\ heap = <<>>
    /\ jobs = <<>>
    /\ is_running = FALSE

CallStandaloneInterval ==
    /\ th["standalone"].pc = "idle"
    /\ th' = [th EXCEPT !["standalone"] = [pc |-> "returned", ret |-> StandaloneInterval(clock)]]
    /\ UNCHANGED <<clock, frame, camera, hist, captureVars, camVars, schedVars>>

CallServerInterval ==
    /\ th["server"].pc = "idle"
    /\ th' = [th EXCEPT !["server"] = [pc |-> "returned", ret |-> ServerInterval(clock)]]
    /\ UNCHANGED <<clock, frame, camera, hist, captureVars, camVars, schedVars>>

NextPolicy ==
    \/ CallStandaloneInterval
    \/ CallServerInterval

SpecPolicy == InitPolicy /\ [][NextPolicy]_vars

\* C20: get_current_interval returns 5 for every time of day t with
\* 07:00 <= t <= 09:30 or 16:00 <= t <= 19:00, boundaries included, and 15 for
\* every other t, in both copies.
C20_IntervalPolicy ==
    \A c \in PolicyCallers :
        th[c].pc = "returned" =>
            /\ th[c].ret.raised = ""
            /\ th[c].ret.value =
                  IF \/ (7 * 3600 <= clock /\ clock <= 9 * 3600 + 30 * 60)
                     \/ (16 * 3600 <= clock /\ clock <= 19 * 3600)
                  THEN 5 ELSE 15


\* ------------------------------------------------------- the frame buffer
\* SpecFrames: CameraManager of app.py (stream_server.py has the same buffer,
\* start and stop; its loop sleeps after a failed read only).  th holds the
\* acquisition threads that start_streaming creates and the request threads,
\* which call get_frame (stream generators, stream_server's capture_photo) or
\* app.py's capture_photo.  A frame array is an object of heap; its pixels are
\* the number of the device frame it shows, 0 once a consumer has drawn on it.
\* hist.dev counts the device frames read, hist.pubs lists the pixels published.
Acq     == {"acq1", "acq2"}
Readers == {"r1", "r2"}
ObjOf   == [r1 |-> -1, r2 |-> -2]

FrameThread(pc) ==
    [pc |-> pc, img |-> 0, ref |-> <<>>, val |-> <<>>, seen |-> 0, at |-> 0]

\* The arrays still referenced by the buffer f or by a thread of t.
Collect(h, f, t) ==
    LET live == {o \in DOMAIN h : f = <<o>> \/ \E x \in DOMAIN t : t[x].ref = <<o>>}
    IN  [o \in live |-> h[o]]

InitFrames ==
    /\ clock = 0
    /\ frame = <<>>
    /\ camera = "none"
    /\ is_streaming = FALSE
    /\ lock = <<>>
    /\ heap = <<>>
    /\ th = [t \in Acq \cup Readers |->
               FrameThread(IF t \in Acq THEN "dead" ELSE "idle")]
    /\ hist = [dev |-> 0, pubs |-> <<>>]
    /\ up = TRUE
    /\ photo_count = 0
    /\ metaFile = [exists |-> FALSE, data |-> <<>>]
    /\ metadata = ZeroState
    /\ photos = <<>>
    /\ jobs = <<>>
    /\ is_running = FALSE

\* start_streaming: probe for a camera if there is no handle, set is_streaming,
\* start a thread on the loop.  (a is the thread started.)
StartStreaming(a) ==
    /\ th[a].pc = "dead"
    /\ \E found \in BOOLEAN :
          IF camera = "none" /\ ~found
          THEN UNCHANGED <<camera, is_streaming, th>>
          ELSE /\ camera' = IF camera = "none" THEN "open" ELSE camera
               /\ is_streaming' = TRUE
               /\ th' = [th EXCEPT ![a] = FrameThread("loop")]
    /\ UNCHANGED <<clock, frame, hist, lock, heap, captureVars, schedVars>>

\* As StopStreaming, without releasing the handle.
StopStreamingKeepOpen ==
    /\ is_streaming' = FALSE
    /\ camera' = camera
    /\ UNCHANGED <<clock, frame, th, hist, lock, heap, captureVars, schedVars>>

\* stop_streaming: clear is_streaming, release the handle (and keep it).
StopStreaming ==
    /\ is_streaming' = FALSE
    /\ camera' = IF camera = "none" THEN "none" ELSE "released"
    /\ UNCHANGED <<clock, frame, th, hist, lock, heap, captureVars, schedVars>>

\* As AcqCheck, with the device read moved inside the lock.
AcqCheckLocked(a) ==
    /\ th[a].pc \in {"loop", "sleep"}
    /\ IF is_streaming /\ camera # "none"
       THEN /\ hist.dev < MaxFrames
            /\ lock = <<>>
            /\ lock' = <<a>>
            /\ th' = [th EXCEPT ![a].pc = "read"]
       ELSE /\ th' = [th EXCEPT ![a].pc = "dead"]
            /\ lock' = lock
    /\ UNCHANGED <<clock, frame, camera, hist, is_streaming, heap, captureVars, schedVars>>

\* while self.is_streaming and self.camera: as the thread starts or as
\* time.sleep(0.033) returns.
AcqCheck(a) ==
    /\ th[a].pc \in {"loop", "sleep"}
    /\ IF is_streaming /\ camera # "none"
       THEN /\ hist.dev < MaxFrames
            /\ th' = [th EXCEPT ![a].pc = "read"]
       ELSE th' = [th EXCEPT ![a].pc = "dead"]
    /\ UNCHANGED <<clock, frame, camera, hist, camVars, captureVars, schedVars>>

\* As AcqRead, with a failed read ending the loop.
AcqReadFailEnds(a) ==
    /\ th[a].pc = "read"
    /\ \E ok \in BOOLEAN :
          IF ok /\ camera = "open"
          THEN /\ hist' = [hist EXCEPT !.dev = @ + 1]
               /\ th' = [th EXCEPT ![a].pc = "lock_wait", ![a].img = hist.dev + 1]
          ELSE /\ hist' = hist
               /\ th' = [th EXCEPT ![a].pc = "dead"]
    /\ UNCHANGED <<clock, frame, camera, camVars, captureVars, schedVars>>

\* ret, frame = self.camera.read(): the next device frame, or a failed read.
AcqRead(a) ==
    /\ th[a].pc = "read"
    /\ \E ok \in BOOLEAN :
          IF ok /\ camera = "open"
          THEN /\ hist' = [hist EXCEPT !.dev = @ + 1]
               /\ th' = [th EXCEPT ![a].pc = "lock_wait", ![a].img = hist.dev + 1]
          ELSE /\ hist' = hist
               /\ th' = [th EXCEPT ![a].pc = "sleep"]
    /\ UNCHANGED <<clock, frame, camera, camVars, captureVars, schedVars>>

\* with self.frame_lock: (producer)
AcqLock(a) ==
    /\ th[a].pc = "lock_wait"
    /\ lock = <<>>
    /\ lock' = <<a>>
    /\ th' = [th EXCEPT ![a].pc = "locked"]
    /\ UNCHANGED <<clock, frame, camera, hist, is_streaming, heap, captureVars, schedVars>>

\* As AcqPublish, storing the frame only while the buffer is still empty.
AcqPublishIfEmpty(a) ==
    /\ th[a].pc = "locked"
    /\ lock = <<a>>
    /\ LET n == Len(hist.pubs) + 1 IN
       /\ frame' = IF frame = <<>> THEN <<n>> ELSE frame
       /\ heap' = Collect(SetItem(heap, n, th[a].img), frame', th)
       /\ hist' = [hist EXCEPT !.pubs = Append(@, th[a].img)]
    /\ lock' = <<>>
    /\ th' = [th EXCEPT ![a].pc = "sleep", ![a].img = 0]
    /\ UNCHANGED <<clock, camera, is_streaming, captureVars, schedVars>>

\* self.last_frame = frame.copy(), and the lock is released.
AcqPublish(a) ==
    /\ th[a].pc = "locked"
    /\ lock = <<a>>
    /\ LET n == Len(hist.pubs) + 1 IN
       /\ frame' = <<n>>
       /\ heap' = Collect(SetItem(heap, n, th[a].img), frame', th)
       /\ hist' = [hist EXCEPT !.pubs = Append(@, th[a].img)]
    /\ lock' = <<>>
    /\ th' = [th EXCEPT ![a].pc = "sleep", ![a].img = 0]
    /\ UNCHANGED <<clock, camera, is_streaming, captureVars, schedVars>>

\* get_frame is entered.
GetFrameCall(r) ==
    /\ th[r].pc = "idle"
    /\ th' = [th EXCEPT ![r] = [FrameThread("lock_wait") EXCEPT !.seen = Len(hist.pubs)]]
    /\ UNCHANGED <<clock, frame, camera, hist, camVars, captureVars, schedVars>>

\* with self.frame_lock: (consumer)
GetFrameLock(r) ==
    /\ th[r].pc = "lock_wait"
    /\ lock = <<>>
    /\ lock' = <<r>>
    /\ th' = [th EXCEPT ![r].pc = "locked"]
    /\ UNCHANGED <<clock, frame, camera, hist, is_streaming, heap, captureVars, schedVars>>

\* As GetFrameCopy, returning self.last_frame itself.
GetFrameAlias(r) ==
    /\ th[r].pc = "locked"
    /\ lock = <<r>>
    /\ th' = [th EXCEPT ![r].pc = "io", ![r].at = Len(hist.pubs), ![r].ref = frame,
                        ![r].val = IF frame = <<>> THEN <<>> ELSE <<heap[frame[1]]>>]
    /\ lock' = <<>>
    /\ UNCHANGED <<clock, frame, camera, hist, is_streaming, heap, captureVars, schedVars>>

\* As GetFrameCopy, returning without releasing the lock.
GetFrameKeepLock(r) ==
    /\ th[r].pc = "locked"
    /\ lock = <<r>>
    /\ IF frame = <<>>
       THEN /\ th' = [th EXCEPT ![r].pc = "io", ![r].at = Len(hist.pubs)]
            /\ heap' = heap
       ELSE /\ th' = [th EXCEPT ![r].pc = "io", ![r].at = Len(hist.pubs),
                                ![r].ref = <<ObjOf[r]>>, ![r].val = <<heap[frame[1]]>>]
            /\ heap' = SetItem(heap, ObjOf[r], heap[frame[1]])
    /\ UNCHANGED <<clock, frame, camera, hist, is_streaming, lock, captureVars, schedVars>>

\* return self.last_frame.copy() if there is a frame, else None; the lock is
\* released, and the caller goes on to encode, write or send what it got.
GetFrameCopy(r) ==
    /\ th[r].pc = "locked"
    /\ lock = <<r>>
    /\ IF frame = <<>>
       THEN /\ th' = [th EXCEPT ![r].pc = "io", ![r].at = Len(hist.pubs)]
            /\ heap' = heap
       ELSE /\ th' = [th EXCEPT ![r].pc = "io", ![r].at = Len(hist.pubs),
                                ![r].ref = <<ObjOf[r]>>, ![r].val = <<heap[frame[1]]>>]
            /\ heap' = SetItem(heap, ObjOf[r], heap[frame[1]])
    /\ lock' = <<>>
    /\ UNCHANGED <<clock, frame, camera, hist, is_streaming, captureVars, schedVars>>

\* A consumer draws on the array it was given.
ConsumerDraw(r) ==
    /\ th[r].pc = "io"
    /\ th[r].ref # <<>>
    /\ heap[th[r].ref[1]] # 0
    /\ heap' = SetItem(heap, th[r].ref[1], 0)
    /\ UNCHANGED <<clock, frame, camera, th, hist, is_streaming, lock, captureVars, schedVars>>

\* The consumer is done with the frame (encoded, yielded, slept).
ConsumerDone(r) ==
    /\ th[r].pc = "io"
    /\ th' = [th EXCEPT ![r] = FrameThread("idle")]
    /\ heap' = Collect(heap, frame, th')
    /\ UNCHANGED <<clock, frame, camera, hist, is_streaming, lock, captureVars, schedVars>>

\* app.py capture_photo: if not self.camera: return None; else the device read.
DirectCapture(r) ==
    /\ th[r].pc = "idle"
    /\ camera # "none"
    /\ th' = [th EXCEPT ![r].pc = "read"]
    /\ UNCHANGED <<clock, frame, camera, hist, camVars, captureVars, schedVars>>

\* app.py capture_photo: the read returns; file name, imwrite, return.
DirectCaptureDone(r) ==
    /\ th[r].pc = "read"
    /\ th' = [th EXCEPT ![r].pc = "idle"]
    /\ UNCHANGED <<clock, frame, camera, hist, camVars, captureVars, schedVars>>

NextFrames ==
    \/ \E a \in Acq : StartStreaming(a)
    \/ StopStreaming
    \/ \E a \in Acq : AcqCheck(a)
    \/ \E a \in Acq : AcqRead(a)
    \/ \E a \in Acq : AcqLock(a)
    \/ \E a \in Acq : AcqPublish(a)
    \/ \E r \in Readers : GetFrameCall(r)
    \/ \E r \in Readers : GetFrameLock(r)
    \/ \E r \in Readers : GetFrameCopy(r)
    \/ \E r \in Readers : ConsumerDraw(r)
    \/ \E r \in Readers : ConsumerDone(r)
    \/ \E r \in Readers : DirectCapture(r)
    \/ \E r \in Readers : DirectCaptureDone(r)

SpecFrames == InitFrames /\ [][NextFrames]_vars

\* Scheduling that lets every thread holding or awaiting the lock run: a
\* holder gets to release it, a producer that finds the lock free again and
\* again gets it.
FairSpecFrames ==
    /\ SpecFrames
    /\ \A a \in Acq : SF_vars(AcqLock(a)) /\ WF_vars(AcqPublish(a))
    /\ \A r \in Readers : WF_vars(GetFrameCopy(r))

\* C11: a get_frame that copies the buffer before any publish returns None;
\* one that copies it after a publish returns the pixels of the latest publish.
C11_LatestFrame ==
    \A r \in Readers :
        th[r].pc = "io" =>
            th[r].val = IF th[r].at = 0 THEN <<>> ELSE <<hist.pubs[th[r].at]>>

\* One reader got None before the first publish, another the second publish.
C11_Witness ==
    \E r, q \in Readers :
        /\ th[r].pc = "io" /\ th[r].at = 0 /\ th[r].val = <<>>
        /\ th[q].pc = "io" /\ th[q].at = 2 /\ th[q].val = <<hist.pubs[2]>>

\* C12: a reader receives None or the pixels of one publish; what a consumer
\* draws on its frame never shows in the buffer or in another reader's frame:
\* the buffer holds the pixels last published and no two holders share an array.
C12_FrameIntegrity ==
    /\ \A r \in Readers :
          th[r].pc = "io" =>
              \/ th[r].val = <<>>
              \/ \E i \in 1..Len(hist.pubs) : th[r].val = <<hist.pubs[i]>>
    /\ frame # <<>> => heap[frame[1]] = hist.pubs[Len(hist.pubs)]
    /\ \A r \in Readers :
          th[r].ref # <<>> =>
              /\ th[r].ref # frame
              /\ \A q \in Readers \ {r} : th[q].ref # th[r].ref

\* A consumer has drawn on its frame while another reader holds the same
\* publish untouched.
C12_Witness ==
    \E r \in Readers : \E q \in Readers \ {r} :
        /\ th[r].ref # <<>> /\ heap[th[r].ref[1]] = 0
        /\ th[q].pc = "io" /\ th[q].val = th[r].val
        /\ th[q].ref # <<>> /\ <<heap[th[q].ref[1]]>> = th[q].val

\* C13: a get_frame entered after n publishes had completed (n > 0) returns the
\* frame of publish n or of a later one.
C13_Freshness ==
    \A r \in Readers :
        (th[r].pc = "io" /\ th[r].seen > 0) =>
            \E i \in th[r].seen..Len(hist.pubs) : th[r].val = <<hist.pubs[i]>>

\* A read entered after the first publish returned the second.
C13_Witness ==
    \E r \in Readers :
        th[r].pc = "io" /\ th[r].seen = 1 /\ th[r].at = 2 /\ th[r].val = <<hist.pubs[2]>>

\* C14: at most one acquisition thread is alive at any time.
C14_SingleWriter == Cardinality({a \in Acq : th[a].pc # "dead"}) <= 1

\* C15: only the acquisition loop is ever inside a read of the device handle.
C15_OnlyLoopReadsDevice == \A t \in DOMAIN th : th[t].pc = "read" => t \in Acq

\* C16: whoever holds the frame lock is copying a frame in memory: not in a
\* device read, not asleep, not encoding or sending, not between pulls.
C16_NoLockDuringIO == lock # <<>> => th[lock[1]].pc = "locked"

\* A reader holds the lock while a device read and a consumer's I/O go on.
C16_Witness ==
    \E r \in Readers : \E q \in Readers \ {r} : \E a \in Acq :
        lock = <<r>> /\ th[q].pc = "io" /\ th[a].pc = "read"

\* C17: under fair scheduling a producer waiting for the lock gets to publish.
C17_PublishCompletes ==
    \A a \in Acq : (th[a].pc = "lock_wait") ~> (th[a].pc = "sleep")

\* A producer waits for the lock while a reader holds it.
C17_Witness ==
    \E a \in Acq : \E r \in Readers : th[a].pc = "lock_wait" /\ lock = <<r>>

\* ---------------------------------------------------- the scheduler loop
\* SpecSched: PhotoScheduler of stream_server.py with the schedule library's
\* job list.  clock counts seconds since midnight and moves from one instant
\* at which something falls due to the next, every sleeping loop waking at
\* each (it polls once a second); capture_photo takes no time.  jobs is
\* schedule.jobs, a job's id its object identity (the schedule_photos call
\* that made it and its reason); th holds the _scheduler_loop threads.
\* hist.prev and hist.last are the times of the last two captures by the
\* 5 and 15 minute jobs, hist.gen and hist.tests count the schedule_photos
\* calls and the stop, test and clear-test requests, hist.op tells whether clear_test_photos was
\* the last scheduler operation called, hist.early lists the "test" jobs
\* removed before they ever fell due; th[l].stops tells whether stop_scheduler
\* was called during the life of loop l.
SchedLoops == {"loop1", "loop2"}

Job(gen, reason, tag, every, now) ==
    [id |-> <<gen, reason>>, tag |-> tag, every |-> every, next_run |-> now + every,
     last_run |-> <<>>]

\* As SchedulePhotos, without the schedule.clear() at its start.
SchedulePhotosNoClear(gen, now) ==
    jobs \o << Job(gen, "test_45s", "test", 45, now),
               Job(gen, "test_90s", "test", 90, now),
               Job(gen, "high_frequency", "high_freq", 5 * 60, now),
               Job(gen, "low_frequency", "low_freq", 15 * 60, now) >>

\* schedule.clear(); four times schedule.every(n).<unit>.do(...).tag(...)
SchedulePhotos(gen, now) ==
    << Job(gen, "test_45s", "test", 45, now),
       Job(gen, "test_90s", "test", 90, now),
       Job(gen, "high_frequency", "high_freq", 5 * 60, now),
       Job(gen, "low_frequency", "low_freq", 15 * 60, now) >>

\* sorted(job for job in jobs if job.should_run), as ids: by next_run, stable.
RECURSIVE Runnable(_, _)
Runnable(js, now) ==
    LET due == {i \in 1..Len(js) : js[i].next_run <= now}
    IN  IF due = {} THEN <<>>
        ELSE LET i == CHOOSE k \in due :
                          \A m \in due : \/ js[k].next_run < js[m].next_run
                                         \/ js[k].next_run = js[m].next_run /\ k <= m
             IN  <<js[i].id>> \o Runnable([js EXCEPT ![i].next_run = now + 1], now)

\* As ClearTag, clearing every job whatever its tag.
ClearAnyTag(js, tag) == <<>>

\* schedule.clear(tag)
ClearTag(js, tag) == SelectSeq(js, LAMBDA j : j.tag # tag)

\* The jobs of js that are gone from js2 without ever having fallen due.
Dropped(js, js2, now) ==
    {js[i].id : i \in {k \in 1..Len(js) :
        /\ js[k].tag = "test" /\ js[k].last_run = <<>> /\ js[k].next_run > now
        /\ \A m \in 1..Len(js2) : js2[m].id # js[k].id}}

LoopThread(pc, now) == [pc |-> pc, todo |-> <<>>, start_time |-> now, stops |-> ""]

InitSched ==
    /\ clock \in {7 * 3600, 12 * 3600}
    /\ th = [l \in SchedLoops |-> LoopThread("dead", 0)]
    /\ jobs = <<>>
    /\ is_running = FALSE
    /\ is_streaming = TRUE
    /\ hist = [t0 |-> clock, ticks |-> 0, gen |-> 0, prev |-> 0, last |-> 0, tests |-> 0, op |-> "",
               early |-> {}]
    /\ camera = "open"
    /\ frame = <<>>
    /\ lock = <<>>
    /\ heap = <<>>
    /\ up = TRUE
    /\ photo_count = 0
    /\ metaFile = [exists |-> FALSE, data |-> <<>>]
    /\ metadata = ZeroState
    /\ photos = <<>>

\* As StartScheduler, without the test of camera_manager.is_streaming.
StartSchedulerUnguarded(l) ==
    /\ th[l].pc = "dead"
    /\ hist.gen < MaxStarts
    /\ is_running' = TRUE
    /\ jobs' = SchedulePhotos(hist.gen + 1, clock)
    /\ hist' = [hist EXCEPT !.gen = @ + 1, !.op = "",
                            !.early = @ \cup Dropped(jobs, jobs', clock)]
    /\ th' = [th EXCEPT ![l] = LoopThread("start", clock)]
    /\ UNCHANGED <<clock, frame, camera, camVars, captureVars>>

\* start_scheduler (POST /api/scheduler/start): l is the thread it starts.
StartScheduler(l) ==
    /\ th[l].pc = "dead"
    /\ hist.gen < MaxStarts
    /\ IF ~is_streaming
       THEN UNCHANGED <<is_running, jobs, th, hist>>
       ELSE /\ is_running' = TRUE
            /\ jobs' = SchedulePhotos(hist.gen + 1, clock)
            /\ hist' = [hist EXCEPT !.gen = @ + 1, !.op = "",
                                    !.early = @ \cup Dropped(jobs, jobs', clock)]
            /\ th' = [th EXCEPT ![l] = LoopThread("start", clock)]
    /\ UNCHANGED <<clock, frame, camera, camVars, captureVars>>

\* stop_scheduler (POST /api/scheduler/stop)
StopScheduler ==
    /\ hist.tests < MaxOps
    /\ is_running' = FALSE
    /\ jobs' = <<>>
    /\ hist' = [hist EXCEPT !.tests = @ + 1, !.op = "",
                            !.early = @ \cup Dropped(jobs, jobs', clock)]
    /\ th' = [l \in SchedLoops |->
                IF th[l].pc # "dead" /\ th[l].stops = ""
                THEN [th[l] EXCEPT !.stops = "stopped"] ELSE th[l]]
    /\ UNCHANGED <<clock, frame, camera, camVars, captureVars>>

\* test_scheduler (POST /api/scheduler/test): two more jobs tagged "test".
TestRoute ==
    /\ hist.tests < MaxOps
    /\ jobs' = jobs \o << Job(0 - (hist.tests + 1), "test_10s", "test", 10, clock),
                          Job(0 - (hist.tests + 1), "test_20s", "test", 20, clock) >>
    /\ hist' = [hist EXCEPT !.tests = @ + 1, !.op = ""]
    /\ UNCHANGED <<clock, frame, camera, th, is_running, camVars, captureVars>>

\* clear_test_photos (POST /api/scheduler/clear-test)
ClearTestRoute ==
    /\ hist.tests < MaxOps
    /\ jobs' = ClearTag(jobs, "test")
    /\ hist' = [hist EXCEPT !.tests = @ + 1, !.op = "clear_test", !.early = @ \cup Dropped(jobs, jobs', clock)]
    /\ UNCHANGED <<clock, frame, camera, th, is_running, camVars, captureVars>>

\* while self.is_running: schedule.run_pending() collects the due jobs.
LoopCheck(l) ==
    /\ th[l].pc \in {"start", "wake"}
    /\ th' = IF is_running
             THEN [th EXCEPT ![l].pc = "run", ![l].todo = Runnable(jobs, clock)]
             ELSE [th EXCEPT ![l].pc = "dead", ![l].todo = <<>>]
    /\ UNCHANGED <<clock, frame, camera, hist, camVars, captureVars, schedVars>>

\* run_pending: job.run() calls the job function (capture_photo) ...
JobRun(l) ==
    /\ th[l].pc = "run"
    /\ th[l].todo # <<>>
    /\ th' = [th EXCEPT ![l].pc = "job"]
    /\ UNCHANGED <<clock, frame, camera, hist, camVars, captureVars, schedVars>>

\* As JobReturn, a failed capture cancelling its job.
JobReturnCancel(l) ==
    /\ th[l].pc = "job"
    /\ \E ok \in BOOLEAN :
       LET id == Head(th[l].todo) IN
       /\ jobs' = IF ok
                  THEN [i \in 1..Len(jobs) |->
                          IF jobs[i].id = id
                          THEN [jobs[i] EXCEPT !.next_run = clock + jobs[i].every,
                                               !.last_run = <<clock>>]
                          ELSE jobs[i]]
                  ELSE SelectSeq(jobs, LAMBDA j : j.id # id)
       /\ hist' = IF ok /\ id[2] \in {"high_frequency", "low_frequency"}
                  THEN [hist EXCEPT !.prev = hist.last, !.last = clock]
                  ELSE hist
    /\ th' = [th EXCEPT ![l].pc = "run", ![l].todo = Tail(@)]
    /\ UNCHANGED <<clock, frame, camera, is_running, camVars, captureVars>>

\* ... and, when it has returned (a file name, or False after a failure), sets
\* the job's last_run to now and its next_run to now + interval.
JobReturn(l) ==
    /\ th[l].pc = "job"
    /\ \E ok \in BOOLEAN :
       LET id == Head(th[l].todo) IN
       /\ jobs' = [i \in 1..Len(jobs) |->
                     IF jobs[i].id = id
                     THEN [jobs[i] EXCEPT !.next_run = clock + jobs[i].every,
                                          !.last_run = <<clock>>]
                     ELSE jobs[i]]
       /\ hist' = IF ok /\ id[2] \in {"high_frequency", "low_frequency"}
                  THEN [hist EXCEPT !.prev = hist.last, !.last = clock]
                  ELSE hist
    /\ th' = [th EXCEPT ![l].pc = "run", ![l].todo = Tail(@)]
    /\ UNCHANGED <<clock, frame, camera, is_running, camVars, captureVars>>

\* After run_pending: clear the test jobs once 120 s have passed; time.sleep(1).
LoopSleep(l) ==
    /\ th[l].pc = "run"
    /\ th[l].todo = <<>>
    /\ jobs' = IF clock - th[l].start_time > 120 THEN ClearTag(jobs, "test") ELSE jobs
    /\ hist' = [hist EXCEPT !.early = @ \cup Dropped(jobs, jobs', clock)]
    /\ th' = [th EXCEPT ![l].pc = "sleep"]
    /\ UNCHANGED <<clock, frame, camera, is_running, camVars, captureVars>>

\* The instants after now at which a poll finds something to do: a job has
\* fallen due, or a loop is past its first 120 s with "test" jobs to clear.
Events(now) ==
    {jobs[i].next_run : i \in 1..Len(jobs)}
        \cup {IF now + 1 > th[l].start_time + 121 THEN now + 1 ELSE th[l].start_time + 121 :
                 l \in {k \in SchedLoops : /\ th[k].pc # "dead"
                                            /\ \E i \in 1..Len(jobs) : jobs[i].tag = "test"}}

\* Time passes to the next such instant and the sleeping loops wake.
SchedTick ==
    /\ \A l \in SchedLoops : th[l].pc \in {"dead", "sleep"}
    /\ hist.ticks < Horizon
    /\ LET ev == {t \in Events(clock) : clock < t} IN
       /\ ev # {}
       /\ clock' = CHOOSE t \in ev : \A u \in ev : t <= u
    /\ hist' = [hist EXCEPT !.ticks = @ + 1]
    /\ th' = [l \in SchedLoops |-> IF th[l].pc = "sleep" THEN [th[l] EXCEPT !.pc = "wake"] ELSE th[l]]
    /\ UNCHANGED <<frame, camera, camVars, captureVars, schedVars>>

NextSched ==
    \/ \E l \in SchedLoops : StartScheduler(l)
    \/ StopScheduler
    \/ TestRoute
    \/ ClearTestRoute
    \/ \E l \in SchedLoops : LoopCheck(l)
    \/ \E l \in SchedLoops : JobRun(l)
    \/ \E l \in SchedLoops : JobReturn(l)
    \/ \E l \in SchedLoops : LoopSleep(l)
    \/ SchedTick

SpecSched == InitSched /\ [][NextSched]_vars

\* SpecSchedStandalone: PhotoScheduler of photo_scheduler.py.  main calls
\* schedule_photos and run_scheduler on its one thread ("loop1"); a health
\* check is an HTTP request that may take a while (timeout=5).
StandaloneSchedulePhotos(gen, now) ==
    << Job(gen, "high_frequency", "high_freq", 5 * 60, now),
       Job(gen, "low_frequency", "low_freq", 15 * 60, now) >>

InitSchedStandalone ==
    /\ clock \in {7 * 3600, 12 * 3600}
    /\ th = [l \in SchedLoops |-> LoopThread(IF l = "loop1" THEN "init" ELSE "dead", clock)]
    /\ jobs = StandaloneSchedulePhotos(1, clock)
    /\ is_running = FALSE
    /\ is_streaming = TRUE
    /\ hist = [t0 |-> clock, ticks |-> 0, gen |-> 1, prev |-> 0, last |-> 0, tests |-> 0,
               op |-> "", early |-> {}]
    /\ camera = "open"
    /\ frame = <<>>
    /\ lock = <<>>
    /\ heap = <<>>
    /\ up = TRUE
    /\ photo_count = 0
    /\ metaFile = [exists |-> FALSE, data |-> <<>>]
    /\ metadata = ZeroState
    /\ photos = <<>>

\* run_scheduler, up to the loop: without a healthy web server it returns and
\* main's finally calls stop_scheduler.  hist.op records how the loop came to
\* its end: "unavailable" (first health check failed), "unhealthy" (a later
\* one failed) or "stop" (Ctrl+C).
RunScheduler(l) ==
    /\ th[l].pc = "init"
    /\ \E healthy \in BOOLEAN :
          /\ is_running' = healthy
          /\ th' = [th EXCEPT ![l].pc = IF healthy THEN "start" ELSE "dead"]
          /\ hist' = [hist EXCEPT !.op = IF healthy THEN @ ELSE "unavailable"]
    /\ UNCHANGED <<clock, frame, camera, jobs, camVars, captureVars>>

\* As StandaloneLoopCheck, a failed health check being retried at the next poll.
StandaloneLoopCheckRetry(l) ==
    /\ th[l].pc \in {"start", "wake"}
    /\ \E healthy \in BOOLEAN : \E took \in {0, 2} :
          /\ clock' = IF is_running THEN clock + took ELSE clock
          /\ is_running' = is_running
          /\ th' = IF ~is_running
                   THEN [th EXCEPT ![l].pc = "dead", ![l].todo = <<>>]
                   ELSE IF healthy
                   THEN [th EXCEPT ![l].pc = "run", ![l].todo = Runnable(jobs, clock')]
                   ELSE [th EXCEPT ![l].pc = "run", ![l].todo = <<>>]
          /\ hist' = [hist EXCEPT !.op = IF is_running /\ ~healthy THEN "unhealthy" ELSE @]
    /\ UNCHANGED <<frame, camera, jobs, camVars, captureVars>>

\* while self.is_running: if not self.check_web_server(): break (and the
\* finally clause calls stop_scheduler); get_current_interval();
\* schedule.run_pending() collects the due jobs.
StandaloneLoopCheck(l) ==
    /\ th[l].pc \in {"start", "wake"}
    /\ \E healthy \in BOOLEAN : \E took \in {0, 2} :
          /\ clock' = IF is_running THEN clock + took ELSE clock
          /\ is_running' = (is_running /\ healthy)
          /\ th' = IF is_running /\ healthy
                   THEN [th EXCEPT ![l].pc = "run", ![l].todo = Runnable(jobs, clock')]
                   ELSE [th EXCEPT ![l].pc = "dead", ![l].todo = <<>>]
          /\ hist' = [hist EXCEPT !.op = IF is_running /\ ~healthy THEN "unhealthy" ELSE @]
    /\ UNCHANGED <<frame, camera, jobs, camVars, captureVars>>

\* time.sleep(1)
StandaloneLoopSleep(l) ==
    /\ th[l].pc = "run"
    /\ th[l].todo = <<>>
    /\ th' = [th EXCEPT ![l].pc = "sleep"]
    /\ UNCHANGED <<clock, frame, camera, hist, camVars, captureVars, schedVars>>

\* Ctrl+C: KeyboardInterrupt ends the loop and stop_scheduler is called.
StandaloneStop(l) ==
    /\ th[l].pc \notin {"init", "dead"}
    /\ is_running' = FALSE
    /\ th' = [th EXCEPT ![l].pc = "dead", ![l].todo = <<>>]
    /\ hist' = [hist EXCEPT !.op = "stop"]
    /\ UNCHANGED <<clock, frame, camera, jobs, camVars, captureVars>>

NextSchedStandalone ==
    \/ RunScheduler("loop1")
    \/ StandaloneLoopCheck("loop1")
    \/ JobRun("loop1")
    \/ JobReturn("loop1")
    \/ StandaloneLoopSleep("loop1")
    \/ StandaloneStop("loop1")
    \/ SchedTick

SpecSchedStandalone == InitSchedStandalone /\ [][NextSchedStandalone]_vars

\* C18: no two loop threads are inside the handler of the same job at once.
C18_NoOverlap ==
    \A l \in SchedLoops : \A k \in SchedLoops \ {l} :
        ~(th[l].pc = "job" /\ th[k].pc = "job" /\ Head(th[l].todo) = Head(th[k].todo))

\* C19: a capture by the 5 or 15 minute jobs made outside [07:00, 09:30] and
\* [16:00, 19:00] comes 15 minutes after the one before it.
C19_CadencePolicy ==
    (hist.prev # 0 /\ StandaloneInterval(hist.last % DaySeconds).value = 15)
        => hist.last - hist.prev = 15 * 60

\* C21: every schedule_photos call leaves exactly two jobs that are not tagged
\* "test": high_freq every 5 minutes with reason high_frequency, then low_freq
\* every 15 minutes with reason low_frequency, however often it is called.
C21_SteadyJobs ==
    [][hist'.gen # hist.gen =>
         LET steady == SelectSeq(jobs', LAMBDA j : j.tag # "test") IN
         /\ Len(steady) = 2
         /\ steady[1].tag = "high_freq" /\ steady[1].every = 5 * 60
         /\ steady[1].id[2] = "high_frequency"
         /\ steady[2].tag = "low_freq" /\ steady[2].every = 15 * 60
         /\ steady[2].id[2] = "low_frequency"]_vars

\* schedule_photos has been called twice and the job list holds two steady jobs.
C21_Witness ==
    /\ hist.gen = 2
    /\ Len(SelectSeq(jobs, LAMBDA j : j.tag # "test")) = 2
    /\ \A i \in 1..Len(jobs) : jobs[i].id[1] = 2

\* C22: a schedule_photos call leaves every job installed by the test route
\* in the job list.
C22_TransientKept ==
    [][hist'.gen # hist.gen =>
         \A i \in 1..Len(jobs) :
             jobs[i].id[1] < 0 => \E m \in 1..Len(jobs') : jobs'[m].id = jobs[i].id]_vars

\* C23: a job's handler is entered only when the job's interval has elapsed
\* since it was configured or last fired (its next_run has come).
C23_OncePerInterval ==
    \A l \in SchedLoops :
        th[l].pc = "job" =>
            \A i \in 1..Len(jobs) :
                jobs[i].id = Head(th[l].todo) => jobs[i].next_run <= clock

\* C24: every due time of a job is its configuration time plus a whole number
\* of intervals.
C24_NoDrift ==
    \A i \in 1..Len(jobs) : (jobs[i].next_run - hist.t0) % jobs[i].every = 0

\* C25: a job's handler is entered no later than one second after the job
\* fell due.
C25_WithinOnePoll ==
    \A l \in SchedLoops :
        th[l].pc = "job" =>
            \A i \in 1..Len(jobs) :
                jobs[i].id = Head(th[l].todo) => clock <= jobs[i].next_run + 1

\* C26: when a capture handler returns, failed or not, its job is still in the
\* job list with its identity, tag and interval, due one interval from now,
\* and the loop goes on with the jobs it collected.
C26_FailureKeepsJob ==
    [][\A l \in SchedLoops :
          (th[l].pc = "job" /\ jobs' # jobs) =>
              /\ th'[l].pc = "run"
              /\ Len(jobs') = Len(jobs)
              /\ \A i \in 1..Len(jobs) :
                    /\ jobs'[i].id = jobs[i].id
                    /\ jobs'[i].tag = jobs[i].tag
                    /\ jobs'[i].every = jobs[i].every
                    /\ jobs[i].id = Head(th[l].todo) =>
                          jobs'[i].next_run = clock + jobs[i].every]_vars

\* The 5 minute job ran without a capture being recorded (it failed) and is
\* being run again.
C26_Witness ==
    \E l \in SchedLoops : \E i \in 1..Len(jobs) :
        /\ th[l].pc = "job" /\ jobs[i].id = Head(th[l].todo)
        /\ jobs[i].id[2] = "high_frequency"
        /\ jobs[i].last_run # <<>> /\ hist.last = 0

\* C27: clear(tag="test"), from the route or from the loop, leaves no "test"
\* job and leaves the other jobs as they were; the clear() of schedule_photos
\* leaves no job of an earlier call; a "test" job removed before it ever fell
\* due is never run.
C27_ClearByTag ==
    [][/\ \A l \in SchedLoops : th'[l].pc = "job" => Head(th'[l].todo) \notin hist'.early
       /\ (hist'.op = "clear_test" /\ hist.op = "") =>
             /\ \A i \in 1..Len(jobs') : jobs'[i].tag # "test"
             /\ SelectSeq(jobs', LAMBDA j : j.tag # "test")
                   = SelectSeq(jobs, LAMBDA j : j.tag # "test")
       /\ \A l \in SchedLoops : (th[l].pc = "run" /\ th'[l].pc = "sleep") =>
             SelectSeq(jobs', LAMBDA j : j.tag # "test")
                 = SelectSeq(jobs, LAMBDA j : j.tag # "test")
       /\ hist'.gen # hist.gen => \A i \in 1..Len(jobs') : jobs'[i].id[1] = hist'.gen]_vars

\* The route cleared "test" jobs that had never fallen due, the steady jobs are
\* still installed, and a loop has polled at a later instant.
C27_Witness ==
    /\ hist.op = "clear_test" /\ hist.early # {}
    /\ Len(jobs) = 2 /\ hist.ticks > 0
    /\ \E l \in SchedLoops : th[l].pc = "run"

\* C28: once the run loop has ended and stop_scheduler has been called,
\* is_running is False and the job list is empty.
C28_StopClears ==
    th["loop1"].pc = "dead" => (~is_running /\ jobs = <<>>)

\* C29: a loop that was running when stop_scheduler was called exits at its
\* next check of is_running.
C29_StopObserved ==
    [][\A l \in SchedLoops :
          (th[l].stops = "stopped" /\ th[l].pc \in {"start", "wake"} /\ th'[l].pc # th[l].pc)
              => th'[l].pc = "dead"]_vars

\* C30: while is_streaming is False (stop_streaming has returned, or
\* start_streaming was never called) no frame is published.
C30_NoPublishAfterStop == [][~is_streaming => frame' = frame]_vars

\* C31: after stop_streaming the loop is Stopped (is_streaming False and no
\* open device handle), and stop_streaming in a Stopped state, after an earlier
\* stop or before any start, changes nothing.
C31_StopIdempotent ==
    ~is_streaming =>
        /\ camera # "open"
        /\ ~ENABLED (StopStreaming /\ vars' # vars)

\* stop_streaming has been called after a successful start.
C31_Witness == ~is_streaming /\ camera = "released"

\* C39: while is_streaming is True (start_streaming has reported success and
\* no stop has followed) the device handle the loop reads from is open.
C39_StreamingMeansOpen == is_streaming => camera = "open"

\* C33: a device read that fails publishes nothing and leaves the loop alive,
\* a loop that has slept goes on to the next read while is_streaming is True,
\* and a loop ends only when is_streaming is False.
C33_FailedReadTransient ==
    [][\A a \in Acq :
          /\ (th[a].pc = "read" /\ th'[a] # th[a]) =>
                /\ th'[a].pc \in {"lock_wait", "sleep"}
                /\ frame' = frame /\ hist'.pubs = hist.pubs
          /\ (th[a].pc = "sleep" /\ th'[a] # th[a] /\ is_streaming) => th'[a].pc = "read"
          /\ (th[a].pc # "dead" /\ th'[a].pc = "dead") => ~is_streaming]_vars

\* While streaming from an open device a loop sleeps after a read although the
\* device has delivered no frame yet: its read failed.
C33_Witness ==
    \E a \in Acq :
        /\ th[a].pc = "sleep" /\ is_streaming /\ camera = "open"
        /\ hist.dev = 0 /\ frame = <<>>

\* ------------------------------------------------------- stream generator
\* SpecStream: generate_frames of app.py and of stream_server.py's video_feed,
\* one generator per request thread of Readers, next to one acquisition loop.
\* A generator's get_frame is GetFrameCall, GetFrameLock, GetFrameCopy; th[r].pc
\* is "off" until the route is requested.  hist.sent[r] holds the chunk the
\* generator of r yielded last and n, which flips at every yield.

\* cv2.imencode('.jpg', frame) wrapped as one part of the multipart response.
Chunk(pixels) == <<"--frame", "Content-Type: image/jpeg", <<"jpg", pixels>>>>

InitStream ==
    /\ clock = 0
    /\ frame = <<>>
    /\ camera = "none"
    /\ is_streaming = FALSE
    /\ lock = <<>>
    /\ heap = <<>>
    /\ th = [t \in Acq \cup Readers |->
               FrameThread(IF t \in Acq THEN "dead" ELSE "off")]
    /\ hist = [dev |-> 0, pubs |-> <<>>,
               sent |-> [r \in Readers |-> [chunk |-> <<>>, n |-> 0]]]
    /\ up = TRUE
    /\ photo_count = 0
    /\ metaFile = [exists |-> FALSE, data |-> <<>>]
    /\ metadata = ZeroState
    /\ photos = <<>>
    /\ jobs = <<>>
    /\ is_running = FALSE

\* The route returns Response(generate_frames()); the generator starts.
VideoFeed(r) ==
    /\ th[r].pc = "off"
    /\ th' = [th EXCEPT ![r] = FrameThread("idle")]
    /\ UNCHANGED <<clock, frame, camera, hist, camVars, captureVars, schedVars>>

\* As GenYield, with the generator returning after its chunk.
GenYieldOnce(r) ==
    /\ th[r].pc = "io"
    /\ th[r].val # <<>>
    /\ hist' = [hist EXCEPT !.sent[r] = [chunk |-> <<Chunk(th[r].val[1])>>, n |-> 1 - @.n]]
    /\ th' = [th EXCEPT ![r] = FrameThread("off")]
    /\ heap' = Collect(heap, frame, th')
    /\ UNCHANGED <<clock, frame, camera, is_streaming, lock, captureVars, schedVars>>

\* if frame is not None: imencode returned ret True: yield the chunk (sleep),
\* and the loop goes round.
GenYield(r) ==
    /\ th[r].pc = "io"
    /\ th[r].val # <<>>
    /\ hist' = [hist EXCEPT !.sent[r] = [chunk |-> <<Chunk(th[r].val[1])>>, n |-> 1 - @.n]]
    /\ th' = [th EXCEPT ![r] = FrameThread("idle")]
    /\ heap' = Collect(heap, frame, th')
    /\ UNCHANGED <<clock, frame, camera, is_streaming, lock, captureVars, schedVars>>

\* get_frame returned None, or imencode returned ret False: nothing is
\* yielded, time.sleep, and the loop goes round.
GenRetry(r) ==
    /\ th[r].pc = "io"
    /\ th' = [th EXCEPT ![r] = FrameThread("idle")]
    /\ heap' = Collect(heap, frame, th')
    /\ UNCHANGED <<clock, frame, camera, hist, is_streaming, lock, captureVars, schedVars>>

NextStream ==
    \/ StartStreaming("acq1")
    \/ StopStreaming
    \/ AcqCheck("acq1")
    \/ AcqRead("acq1")
    \/ AcqLock("acq1")
    \/ AcqPublish("acq1")
    \/ \E r \in Readers : VideoFeed(r)
    \/ \E r \in Readers : GetFrameCall(r)
    \/ \E r \in Readers : GetFrameLock(r)
    \/ \E r \in Readers : GetFrameCopy(r)
    \/ \E r \in Readers : GenYield(r)
    \/ \E r \in Readers : GenRetry(r)

SpecStream == InitStream /\ [][NextStream]_vars

\* Scheduling that lets every generator run, hands it the lock when the lock is
\* free again and again, and an encoder that does not fail for ever.
FairSpecStream ==
    /\ SpecStream
    /\ WF_vars(AcqPublish("acq1"))
    /\ \A r \in Readers :
          /\ WF_vars(GetFrameCall(r)) /\ SF_vars(GetFrameLock(r))
          /\ WF_vars(GetFrameCopy(r))
          /\ SF_vars(GenYield(r)) /\ WF_vars(GenRetry(r))

\* C34: a generator that has pulled a frame goes back to pulling, whatever it
\* got; it yields nothing when get_frame returned None; a chunk it yields is
\* the encoding of the frame that pull returned, the latest published then;
\* and once a frame is published a started generator yields again and again.
C34_GeneratorRetries ==
    /\ [][\A r \in Readers :
            /\ (th[r].pc = "io" /\ th'[r] # th[r]) => th'[r].pc = "idle"
            /\ hist'.sent[r] # hist.sent[r] =>
                  /\ th[r].pc = "io" /\ th[r].val # <<>>
                  /\ th[r].val = <<hist.pubs[th[r].at]>>
                  /\ hist'.sent[r].chunk = <<Chunk(th[r].val[1])>>]_vars
    /\ \A r \in Readers : \A b \in {0, 1} :
          (th[r].pc # "off" /\ frame # <<>> /\ hist.sent[r].n = b)
              ~> (hist.sent[r].n # b)

\* One generator holds the None it got before the first publish while another
\* has yielded the chunk of the first published frame.
C34_Witness ==
    \E r, q \in Readers :
        /\ Len(hist.pubs) > 0 /\ hist.sent[r].chunk = <<Chunk(hist.pubs[1])>>
        /\ th[q].pc = "io" /\ th[q].val = <<>>

\* ------------------------------------------------------- camera probing
\* SpecProbe: initialize_camera and start_streaming of both CameraManagers.
\* hist.impl says which file runs, hist.devs what each device index does
\* (opens: isOpened() is True, reads: read() returns a frame).  camera is a
\* record here: handle is "none" (None) or the state of the VideoCapture
\* self.camera refers to ("open", "released", or "closed" when it never
\* opened), index is camera_index (-1 for None).  heap maps every index a
\* VideoCapture was created for to that object's state.  hist.starts counts
\* the start_streaming calls and hist.ret is what the last one returned.
Indices == 0..2

\* for i in range(3): the first index from i on whose device opens and reads,
\* 3 when there is none.
RECURSIVE Probe(_, _)
Probe(devs, i) ==
    IF i \notin Indices THEN 3
    ELSE IF devs[i].opens /\ devs[i].reads THEN i
    ELSE Probe(devs, i + 1)

\* The VideoCapture objects app.py's initialize_camera leaves behind: the
\* selected one open, every rejected one released.
Probed(devs) ==
    LET sel == Probe(devs, 0) IN
    [i \in {j \in Indices : j <= sel} |-> IF i = sel THEN "open" ELSE "released"]

InitProbe ==
    /\ hist \in [impl : {"app", "server"},
                 devs : [Indices -> [opens : BOOLEAN, reads : BOOLEAN]],
                 starts : {0}, ret : {"none"}]
    /\ \A i \in Indices : hist.devs[i].reads => hist.devs[i].opens
    /\ camera = [handle |-> "none", index |-> IF hist.impl = "app" THEN -1 ELSE 0]
    /\ is_streaming = FALSE
    /\ th = [a \in Acq |-> [pc |-> "dead"]]
    /\ heap = <<>>
    /\ clock = 0
    /\ frame = <<>>
    /\ lock = <<>>
    /\ up = TRUE
    /\ photo_count = 0
    /\ metaFile = [exists |-> FALSE, data |-> <<>>]
    /\ metadata = ZeroState
    /\ photos = <<>>
    /\ jobs = <<>>
    /\ is_running = FALSE

\* app.py start_streaming with initialize_camera.
ProbeStartStreaming(a) ==
    /\ hist.impl = "app"
    /\ hist.starts < MaxCalls
    /\ th[a].pc = "dead"
    /\ LET sel == Probe(hist.devs, 0) IN
       IF camera.handle = "none" /\ sel = 3
       THEN /\ heap' = Probed(hist.devs)
            /\ hist' = [hist EXCEPT !.starts = @ + 1, !.ret = FALSE]
            /\ UNCHANGED <<camera, is_streaming, th>>
       ELSE /\ camera' = IF camera.handle = "none"
                         THEN [handle |-> "open", index |-> sel] ELSE camera
            /\ heap' = IF camera.handle = "none" THEN Probed(hist.devs) ELSE heap
            /\ is_streaming' = TRUE
            /\ th' = [th EXCEPT ![a].pc = "loop"]
            /\ hist' = [hist EXCEPT !.starts = @ + 1, !.ret = TRUE]
    /\ UNCHANGED <<clock, frame, lock, captureVars, schedVars>>

\* stream_server.py start_streaming with initialize_camera: self.camera is
\* assigned before isOpened() is tested, and no read is tried.
ServerStartStreaming(a) ==
    /\ hist.impl = "server"
    /\ hist.starts < MaxCalls
    /\ th[a].pc = "dead"
    /\ LET opened == hist.devs[camera.index].opens IN
       IF camera.handle = "none" /\ ~opened
       THEN /\ camera' = [camera EXCEPT !.handle = "closed"]
            /\ heap' = (camera.index :> "closed")
            /\ hist' = [hist EXCEPT !.starts = @ + 1, !.ret = FALSE]
            /\ UNCHANGED <<is_streaming, th>>
       ELSE /\ camera' = IF camera.handle = "none"
                         THEN [camera EXCEPT !.handle = "open"] ELSE camera
            /\ heap' = IF camera.handle = "none" THEN (camera.index :> "open") ELSE heap
            /\ is_streaming' = TRUE
            /\ th' = [th EXCEPT ![a].pc = "loop"]
            /\ hist' = [hist EXCEPT !.starts = @ + 1, !.ret = TRUE]
    /\ UNCHANGED <<clock, frame, lock, captureVars, schedVars>>

\* stop_streaming of either file: is_streaming = False; the handle, if there
\* is one, is released and kept.
ProbeStopStreaming ==
    /\ is_streaming' = FALSE
    /\ camera' = IF camera.handle = "none" THEN camera
                 ELSE [camera EXCEPT !.handle = "released"]
    /\ heap' = IF camera.handle = "none" THEN heap
               ELSE [heap EXCEPT ![camera.index] = "released"]
    /\ UNCHANGED <<clock, frame, lock, th, hist, captureVars, schedVars>>

\* The loop finds is_streaming False and its thread ends.
ProbeLoopExit(a) ==
    /\ th[a].pc = "loop"
    /\ ~is_streaming
    /\ th' = [th EXCEPT ![a].pc = "dead"]
    /\ UNCHANGED <<clock, frame, camera, hist, camVars, captureVars, schedVars>>

NextProbe ==
    \/ \E a \in Acq : ProbeStartStreaming(a)
    \/ \E a \in Acq : ServerStartStreaming(a)
    \/ ProbeStopStreaming
    \/ \E a \in Acq : ProbeLoopExit(a)

SpecProbe == InitProbe /\ [][NextProbe]_vars

\* C32: a start_streaming that finds no handle selects the lowest index whose
\* device opens and reads, leaving every lower index released; when there is
\* no such index it returns False, camera stays None, is_streaming stays False
\* and no thread is started.
C32_ProbeInOrder ==
    [][(hist'.starts # hist.starts /\ camera.handle = "none") =>
          LET good == {i \in Indices : hist.devs[i].opens /\ hist.devs[i].reads} IN
          IF good = {}
          THEN /\ hist'.ret = FALSE
               /\ camera'.handle = "none"
               /\ ~is_streaming'
               /\ th' = th
          ELSE /\ hist'.ret = TRUE
               /\ camera'.handle = "open"
               /\ camera'.index \in good
               /\ \A i \in Indices : i < camera'.index =>
                     (i \notin good /\ i \in DOMAIN heap' /\ heap'[i] = "released")]_vars

\* C35: the standalone loop stays alive over every step that is neither a
\* failed health check nor a stop (polls, job runs, failed captures, sleeps);
\* a failed health check ends it with is_running False; an ended loop never
\* runs again.
C35_HealthGatesLoop ==
    [][LET p == th["loop1"].pc
           q == th'["loop1"].pc
       IN  /\ (p \notin {"init", "dead"} /\ hist'.op = hist.op) => q # "dead"
           /\ (hist'.op = "unhealthy" /\ hist.op # "unhealthy") =>
                 (q = "dead" /\ ~is_running')
           /\ p = "dead" => (q = "dead" /\ ~is_running')]_vars

\* The loop ran the 5 minute job, whose capture failed, went on polling, and
\* ended at a failed health check.
C35_Witness ==
    /\ hist.op = "unhealthy" /\ th["loop1"].pc = "dead" /\ ~is_running
    /\ hist.last = 0
    /\ \E i \in 1..Len(jobs) : jobs[i].last_run # <<>>

\* ------------------------------------------------------- scheduler start
\* SpecGate: either scheduler from its construction without a live source
\* yet: the server's PhotoScheduler over a camera manager that is not
\* streaming, or the standalone scheduler before its first health check.
\* hist.impl says which.  No scheduler loop of the server ever starts here, so
\* the server's part of the next-state relation is its requests.
InitGate ==
    /\ clock \in {7 * 3600, 12 * 3600}
    /\ \E impl \in {"server", "standalone"} :
          /\ th = [l \in SchedLoops |->
                     LoopThread(IF impl = "standalone" /\ l = "loop1" THEN "init" ELSE "dead",
                                IF impl = "standalone" THEN clock ELSE 0)]
          /\ jobs = IF impl = "standalone" THEN StandaloneSchedulePhotos(1, clock) ELSE <<>>
          /\ is_streaming = (impl = "standalone")
          /\ hist = [t0 |-> clock, ticks |-> 0, gen |-> IF impl = "standalone" THEN 1 ELSE 0,
                     prev |-> 0, last |-> 0, tests |-> 0, op |-> "", early |-> {},
                     impl |-> impl]
    /\ is_running = FALSE
    /\ camera = "open"
    /\ frame = <<>>
    /\ lock = <<>>
    /\ heap = <<>>
    /\ up = TRUE
    /\ photo_count = 0
    /\ metaFile = [exists |-> FALSE, data |-> <<>>]
    /\ metadata = ZeroState
    /\ photos = <<>>

NextGate ==
    \/ hist.impl = "server" /\ \E l \in SchedLoops : StartScheduler(l)
    \/ hist.impl = "server" /\ StopScheduler
    \/ hist.impl = "server" /\ TestRoute
    \/ hist.impl = "server" /\ ClearTestRoute
    \/ hist.impl = "standalone" /\ NextSchedStandalone

SpecGate == InitGate /\ [][NextGate]_vars

\* C36: over a camera manager that is not streaming no start_scheduler call
\* changes anything, so is_running stays False, no loop runs and no job is
\* installed by it; a standalone scheduler whose first health check failed
\* has is_running False and has run no job.
C36_OnlyLiveSource ==
    /\ (hist.impl = "server" /\ ~is_streaming) =>
          /\ \A l \in SchedLoops : ~ENABLED (StartScheduler(l) /\ vars' # vars)
          /\ ~is_running
          /\ \A l \in SchedLoops : th[l].pc = "dead"
          /\ \A i \in 1..Len(jobs) : jobs[i].id[1] < 0
    /\ hist.op = "unavailable" =>
          /\ ~is_running
          /\ th["loop1"].pc = "dead"
          /\ \A i \in 1..Len(jobs) : jobs[i].last_run = <<>>

\* The standalone scheduler found the web server down at its first check.
C36_Witness == hist.impl = "standalone" /\ hist.op = "unavailable"

\* C38: a poll of the scheduler loop (run_pending to sleep) removes no job that
\* the test route installed.
C38_TestJobStays ==
    [][\A l \in SchedLoops :
          (th[l].pc = "run" /\ th'[l].pc = "sleep") =>
              \A i \in 1..Len(jobs) :
                  jobs[i].id[1] < 0 => \E m \in 1..Len(jobs') : jobs'[m].id = jobs[i].id]_vars

\* ------------------------------------------------------- launcher
\* SpecLauncher: MonitorLauncher.run of start_monitor.py.  th is the launcher:
\* pc is its position in run, web and sched are web_server_process and
\* photo_scheduler_process ("none" for None, else the state of the child:
\* "running", "exited" on its own, "terminated" by the launcher), running is
\* self.running.  hist.confirmed: start_web_server found the web server
\* running; hist.warned: the monitor found the photo scheduler exited;
\* hist.sig: SIGINT or SIGTERM arrived; hist.polls counts the monitor's polls.
Terminate(p) == IF p = "running" THEN "terminated" ELSE p

\* stop_all: running = False and terminate() on every process handle.
StopAll(l) ==
    [l EXCEPT !.running = FALSE, !.web = Terminate(@), !.sched = Terminate(@), !.pc = "done"]

InitLauncher ==
    /\ th = [pc |-> "start_web", web |-> "none", sched |-> "none", running |-> FALSE]
    /\ hist = [confirmed |-> FALSE, warned |-> FALSE, sig |-> FALSE, polls |-> 0]
    /\ clock = 0
    /\ frame = <<>>
    /\ camera = "none"
    /\ is_streaming = FALSE
    /\ lock = <<>>
    /\ heap = <<>>
    /\ up = TRUE
    /\ photo_count = 0
    /\ metaFile = [exists |-> FALSE, data |-> <<>>]
    /\ metadata = ZeroState
    /\ photos = <<>>
    /\ jobs = <<>>
    /\ is_running = FALSE

\* start_web_server: Popen (which may raise: return False), time.sleep(2).
StartWebServer ==
    /\ th.pc = "start_web"
    /\ \E spawned \in BOOLEAN :
          th' = IF spawned THEN [th EXCEPT !.web = "running", !.pc = "web_wait"]
                ELSE [th EXCEPT !.pc = "done"]
    /\ UNCHANGED <<clock, frame, camera, hist, camVars, captureVars, schedVars>>

\* start_web_server: poll() is None: True; else False and run returns.
WebConfirm ==
    /\ th.pc = "web_wait"
    /\ IF th.web = "running"
       THEN /\ th' = [th EXCEPT !.pc = "start_sched"]
            /\ hist' = [hist EXCEPT !.confirmed = TRUE]
       ELSE /\ th' = [th EXCEPT !.pc = "done"]
            /\ hist' = hist
    /\ UNCHANGED <<clock, frame, camera, camVars, captureVars, schedVars>>

\* start_photo_scheduler: Popen (which may raise), time.sleep(1).
StartPhotoScheduler ==
    /\ th.pc = "start_sched"
    /\ \E spawned \in BOOLEAN :
          th' = IF spawned THEN [th EXCEPT !.sched = "running", !.pc = "sched_wait"]
                ELSE [th EXCEPT !.pc = "sched_wait"]
    /\ UNCHANGED <<clock, frame, camera, hist, camVars, captureVars, schedVars>>

\* start_photo_scheduler returns, True or False: run goes on either way,
\* self.running = True, and the monitor loop is entered.
SchedConfirm ==
    /\ th.pc = "sched_wait"
    /\ th' = [th EXCEPT !.pc = "monitor", !.running = TRUE]
    /\ UNCHANGED <<clock, frame, camera, hist, camVars, captureVars, schedVars>>

\* As MonitorPoll, leaving the loop when the photo scheduler has exited too.
MonitorPollStrict ==
    /\ th.pc = "monitor"
    /\ hist.polls < MaxClock
    /\ IF ~th.running \/ th.web = "exited" \/ th.sched = "exited"
       THEN /\ th' = StopAll(th)
            /\ hist' = [hist EXCEPT !.polls = @ + 1]
       ELSE /\ th' = th
            /\ hist' = [hist EXCEPT !.polls = @ + 1]
    /\ UNCHANGED <<clock, frame, camera, camVars, captureVars, schedVars>>

\* One round of the monitor loop: the web server has exited: break, and the
\* finally clause calls stop_all; the photo scheduler has exited: a warning,
\* no break; time.sleep(5).
MonitorPoll ==
    /\ th.pc = "monitor"
    /\ hist.polls < MaxClock
    /\ IF ~th.running \/ th.web = "exited"
       THEN /\ th' = StopAll(th)
            /\ hist' = [hist EXCEPT !.polls = @ + 1]
       ELSE /\ th' = th
            /\ hist' = [hist EXCEPT !.polls = @ + 1,
                                    !.warned = @ \/ th.sched = "exited"]
    /\ UNCHANGED <<clock, frame, camera, camVars, captureVars, schedVars>>

\* signal_handler (SIGINT, SIGTERM, installed before anything is started):
\* stop_all, sys.exit(0).
SignalHandler ==
    /\ th.pc # "done"
    /\ th' = StopAll(th)
    /\ hist' = [hist EXCEPT !.sig = TRUE]
    /\ UNCHANGED <<clock, frame, camera, camVars, captureVars, schedVars>>

\* The web server process exits on its own (crash, port in use, no camera).
WebExit ==
    /\ th.web = "running"
    /\ th' = [th EXCEPT !.web = "exited"]
    /\ UNCHANGED <<clock, frame, camera, hist, camVars, captureVars, schedVars>>

\* The photo scheduler process exits on its own (failed health check).
SchedExit ==
    /\ th.sched = "running"
    /\ th' = [th EXCEPT !.sched = "exited"]
    /\ UNCHANGED <<clock, frame, camera, hist, camVars, captureVars, schedVars>>

NextLauncher ==
    \/ StartWebServer
    \/ WebConfirm
    \/ StartPhotoScheduler
    \/ SchedConfirm
    \/ MonitorPoll
    \/ SignalHandler
    \/ WebExit
    \/ SchedExit

SpecLauncher == InitLauncher /\ [][NextLauncher]_vars

\* C37: the photo scheduler process is created only after start_web_server
\* found the web server running; a monitor poll that finds the web server
\* exited leaves no service running and ends the launcher; a running web
\* server is terminated only on a signal, never because the photo scheduler
\* exited.
C37_LauncherOrder ==
    [][/\ (th.sched = "none" /\ th'.sched # "none") => hist.confirmed
       /\ (th.pc = "monitor" /\ th.web = "exited" /\ hist'.polls # hist.polls) =>
             /\ th'.pc = "done" /\ ~th'.running
             /\ th'.web # "running" /\ th'.sched # "running"
       /\ (th.web = "running" /\ th'.web = "terminated") => (hist'.sig /\ ~hist.sig)]_vars

\* The monitor has found the photo scheduler exited and the web server is
\* still running under the monitor.
C37_Witness ==
    /\ hist.warned /\ th.sched = "exited"
    /\ th.web = "running" /\ th.pc = "monitor" /\ th.running

\* ------------------------------------------------------- get_stats
\* SpecStats: get_stats of the two PhotoSchedulers, called once each over the
\* same counters at a time of day (clock, in seconds since midnight) taken
\* from around the bounds of the policy's windows.
StatTimes ==
    {0, 7 * 3600 - 1, 7 * 3600, 9 * 3600 + 30 * 60, 9 * 3600 + 30 * 60 + 1, 12 * 3600,
     16 * 3600 - 1, 16 * 3600, 19 * 3600, 19 * 3600 + 1, DaySeconds - 1}

\* get_stats: the dict of the five statistics; an exception raised while it
\* is built leaves no dict.  (today is the key strftime('%Y-%m-%d') gives.)
GetStats(ctor, now, today) ==
    LET by_date  == metadata["photos_by_date"]
        interval == IntervalWith(ctor, now)
    IN  IF interval.raised # ""
        THEN [raised |-> interval.raised, value |-> <<>>]
        ELSE [raised |-> "",
              value  |-> [total_photos |-> photo_count,
                          photos_today |-> IF today \in DOMAIN by_date THEN by_date[today] ELSE 0,
                          last_capture |-> metadata["last_capture"],
                          is_running |-> is_running,
                          current_interval |-> interval.value]]

InitStats ==
    /\ clock \in StatTimes
    /\ is_running \in BOOLEAN
    /\ photo_count \in 0..MaxCalls
    /\ metadata = IF photo_count = 0 THEN ZeroState
                  ELSE [total_photos |-> photo_count,
                        photos_by_date |-> (0 :> photo_count),
                        last_capture |-> IsoFormat(clock)]
    /\ th = [c \in PolicyCallers |-> [pc |-> "idle", ret |-> [raised |-> "", value |-> <<>>]]]
    /\ hist = <<>>
    /\ up = TRUE
    /\ frame = <<>>
    /\ camera = "open"
    /\ metaFile = [exists |-> FALSE, data |-> <<>>]
    /\ photos = <<>>
    /\ is_streaming = TRUE
    /\ lock = <<>>
    /\ heap = <<>>
    /\ jobs = <<>>

\* photo_scheduler.py get_stats
CallStandaloneGetStats ==
    /\ th["standalone"].pc = "idle"
    /\ th' = [th EXCEPT !["standalone"] = [pc |-> "returned", ret |-> GetStats("dt_time", clock, 0)]]
    /\ UNCHANGED <<clock, frame, camera, hist, captureVars, camVars, schedVars>>

\* stream_server.py get_stats
CallServerGetStats ==
    /\ th["server"].pc = "idle"
    /\ th' = [th EXCEPT !["server"] = [pc |-> "returned", ret |-> GetStats("datetime.time", clock, 0)]]
    /\ UNCHANGED <<clock, frame, camera, hist, captureVars, camVars, schedVars>>

NextStats ==
    \/ CallStandaloneGetStats
    \/ CallServerGetStats

SpecStats == InitStats /\ [][NextStats]_vars

\* C40: get_stats returns, without raising, a dict with the five keys whose
\* current_interval is the policy's value for the time of day (5 inside
\* 07:00-09:30 and 16:00-19:00, else 15), and so the same in both copies.
C40_StatsNeverFail ==
    /\ \A c \in PolicyCallers :
          th[c].pc = "returned" =>
              /\ th[c].ret.raised = ""
              /\ DOMAIN th[c].ret.value =
                    {"total_photos", "photos_today", "last_capture", "is_running",
                     "current_interval"}
              /\ th[c].ret.value.current_interval =
                    IF \/ (7 * 3600 <= clock /\ clock <= 9 * 3600 + 30 * 60)
                       \/ (16 * 3600 <= clock /\ clock <= 19 * 3600)
                    THEN 5 ELSE 15
    /\ (\A c \in PolicyCallers : th[c].pc = "returned") =>
          th["standalone"].ret = th["server"].ret

====
